---- MODULE Spec2Model ----
(***************************************************************************)
(* A model of DataPulse/topic_model_trainer.py: one invocation of          *)
(* train_model_v2, from the resolution of the raw document collection to   *)
(* the returned metadata record.  The position in the function body is pc; *)
(* every action is one block of the function, with the exceptions it       *)
(* catches handled inside the action and the exceptions it lets through    *)
(* ending the invocation (outcome = "raised").                             *)
(*                                                                         *)
(* Python values are records [t, s, n, l]: t is the Python type, s the     *)
(* text of a str, n the value of an int, l the elements of a list.         *)
(* Scores are integers in units of 1/900, the unit in which 0.25 and the   *)
(* ten points of np.linspace(0.01, 0.5, 10) are all whole numbers.         *)
(***************************************************************************)
EXTENDS Naturals, Integers, Sequences, FiniteSets, Bags, TLC

\* ------------------------------------------------------------------ bounds
\* Largest raw collection the caller hands in.
MaxDocs == 3
\* Largest value the batch-size heuristic returns (the code bounds it to 15).
MaxBatchSize == 2
\* Number of distinct identity keys the random draw can produce.
NumKeys == 2
\* The documents and the topic count of the scenario of a plain train call.
ScenarioDocs == 12
ScenarioTopics == 5

\* ----------------------------------------------------------- Python values
PyNone == [t |-> "NoneType", s |-> "", n |-> 0, l |-> <<>>]
PyStr(text) == [t |-> "str", s |-> text, n |-> 0, l |-> <<>>]
PyInt(i) == [t |-> "int", s |-> "", n |-> i, l |-> <<>>]
PyList(elems) == [t |-> "list", s |-> "", n |-> 0, l |-> elems]

\* isinstance(x, str), isinstance(x, list)
IsStr(x) == x.t = "str"
IsList(x) == x.t = "list"

\* Python truthiness: None, "", 0 and [] are falsy.
Truthy(x) ==
    CASE x.t = "NoneType" -> FALSE
      [] x.t = "str" -> ~(x.s = "" /\ x.l = <<>>)
      [] x.t = "int" -> x.n # 0
      [] x.t = "list" -> Len(x.l) > 0

\* str(x): a str is itself; any other value becomes the (non-empty) text
\* that prints it, kept here as the str whose l names the printed value.
ToStr(x) ==
    IF IsStr(x) THEN x
    ELSE [t |-> "str", s |-> "repr", n |-> 0, l |-> <<x>>]

\* Line 95: [str(token) for token in doc if token]
RECURSIVE CoerceTokens(_)
CoerceTokens(seq) ==
    IF seq = <<>> THEN <<>>
    ELSE IF Truthy(Head(seq))
         THEN <<ToStr(Head(seq))>> \o CoerceTokens(Tail(seq))
         ELSE CoerceTokens(Tail(seq))

\* all(P(x) for x in seq)
All(seq, P(_)) == \A i \in 1..Len(seq) : P(seq[i])

\* The items a raw collection is drawn from when the input shape is the
\* subject: None, strings, integers, token lists, and a list of token lists.
TokA == PyStr("a")
TokB == PyStr("b")
DocA == PyList(<<TokA>>)
DocBA == PyList(<<TokB, TokA>>)
RawItems ==
    { PyNone, PyStr(""), TokA, PyInt(0), PyInt(5),
      PyList(<<>>), DocA, DocBA, PyList(<<PyStr("")>>),
      PyList(<<TokA, PyInt(7)>>), PyList(<<DocA, PyList(<<TokB>>)>>) }

\* Well-formed collections of n token lists, used when a collaborator (and
\* not the input shape) is the subject.
RECURSIVE WellFormed(_)
WellFormed(n) ==
    IF n = 0 THEN <<>>
    ELSE WellFormed(n - 1) \o <<IF n % 2 = 1 THEN DocA ELSE DocBA>>

\* The unified vocabularies a call is given, as sets of tokens: one that
\* holds every token of the well-formed documents and one that lacks a token.
UnifiedVocabularies == {{TokA, TokB}, {TokA}}

\* The topic counts a call is given.
TopicCounts == {2, ScenarioTopics}

Phases == {"train", "validation", "test", "predict"}
\* A corpus_data with a key for every phase value: C17_UnknownPhaseAborts
\* does not hold of it.
EveryPhase == {"train", "validation", "test", "predict"}

\* Line 68-72: the keys of corpus_data.
CorpusPhases == {"train", "validation", "test"}

\* Collaborators of train_model_v2 that can fail.  A function named in
\* `faulty` raises when it is called (or, for a deferred task, evaluated);
\* for a collaborator called once per item (doc2bow, a submitted task, a
\* result fetch, the batch-size heuristic) each single call may fail.
MetricFunctions ==
    {"calculate_perplexity_threshold", "calculate_torch_coherence",
     "calculate_coherence_metrics", "calculate_convergence",
     "calculate_perplexity_score"}
ExecutorFunctions ==
    {"estimate_batches_large_docs_v2", "client.submit", "wait",
     "client.retry", "task_error", "task_pending", "Future.result"}
OtherFunctions ==
    {"dask.compute", "doc2bow", "LdaModel",
     "extract_topics_with_get_topic_terms", "topics_to_store_task",
     "json.dumps", "pickle.dumps"}

\* The fault sets explored: every subset of the metric functions, every
\* other collaborator alone, and the batch executor's collaborators together.
FaultSets ==
    (SUBSET MetricFunctions) \cup {{f} : f \in OtherFunctions}
        \cup {ExecutorFunctions}
        \cup {{f} : f \in ExecutorFunctions}
        \cup {{"task_pending", "task_error"}, {"task_pending", "wait"},
              {"task_pending", "client.retry"}}

\* ------------------------------------------------------------------- state
VARIABLES
    faulty,               \* the collaborators that fail in this invocation
    phase,                \* argument phase
    n_topics,             \* argument n_topics
    validation_test_data, \* argument: the deferred raw collection, resolved
    unified_dictionary,   \* argument unified_dictionary: its tokens
    pc,                   \* position in train_model_v2
    outcome,              \* "running", "record", "None" or "raised"
    exc,                  \* exception that left the call, [type, idx]
    log,                  \* bag of logging records [msg, arg]
    clock,                \* wall clock, one tick per block
    time_of_method_call,  \* local time_of_method_call
    batch_documents,      \* local batch_documents
    unbound,              \* locals that no assignment has bound yet
    train_val_test_dictionary, \* phase-local Dictionary: its tokens
    corpus_data,          \* corpus_data: phase -> list of bags of words
    doc_index,            \* position of the loop of lines 157-184
    number_of_documents,
    failed_convert_token_to_bow,
    chunksize,
    ldamodel,             \* "unset", "ldamodel_parameter" or "trained"
    ldamodel_bytes,       \* "unset", "bytes" (pickled) or "delayed"
    model_fits,           \* calls of LdaModel(...)
    model_pickles,        \* calls of pickle.dumps on the model
    tasks,                \* deferred tasks threshold, convergence_task,
                          \* perplexity_task: "unset" or what they wrap
    max_attempts,
    coherence,            \* coherence_score and its four statistics
    scores,               \* threshold, convergence_score, perplexity_score,
                          \* negative_log_likelihood as numbers
    topics_to_store_task, \* "unset" or "delayed"
    topics_results_jsonb,
    topic_words_jsonb,
    validation_results_jsonb,
    batch_size,
    corpus_batches,       \* list of batches [slice, docs]
    futures,              \* number of futures client.submit has returned
    status,               \* future -> "pending", "finished" or "error"
    retry_count,          \* future -> calls of client.retry on it
    done_batches,         \* sets of futures, as wait returns them
    not_done,
    retry_done_batches,
    retry_not_done,
    fetch_failed,         \* the done futures whose result() fails
    result_shape,         \* what the fetched batch results hold
    validation_results_to_store, \* bag of the entries of the list
    unique_primary_key,
    record                \* the mapping the call returns

inputs ==
    <<faulty, phase, n_topics, validation_test_data, unified_dictionary>>
control == <<pc, outcome, exc>>
normVars == <<batch_documents, unbound>>
corpusVars ==
    <<train_val_test_dictionary, corpus_data, doc_index,
      number_of_documents, failed_convert_token_to_bow, chunksize>>
modelVars == <<ldamodel, ldamodel_bytes, model_fits, model_pickles>>
metricVars == <<tasks, max_attempts, coherence, scores>>
topicVars == <<topics_to_store_task, topics_results_jsonb, topic_words_jsonb>>
waitVars == <<done_batches, not_done, retry_done_batches, retry_not_done>>
fetchVars == <<fetch_failed, result_shape>>
execVars ==
    <<batch_size, corpus_batches, futures, status, retry_count, waitVars,
      fetchVars, validation_results_to_store>>
finalVars == <<unique_primary_key, record>>

\* What the blocks up to the model stage leave alone.
later ==
    <<metricVars, topicVars, validation_results_jsonb, execVars, finalVars>>

vars ==
    <<inputs, control, log, clock, time_of_method_call, normVars,
      corpusVars, modelVars, later>>

NoExc == [type |-> "none", idx |-> -1]
Exception(type, idx) == [type |-> type, idx |-> idx]

LogEntry(msg, arg) == [msg |-> msg, arg |-> arg]
Logged(b, msg, arg) == b (+) SetToBag({LogEntry(msg, arg)})

\* Sequences over S of length lo..hi.
SeqsOf(S, lo, hi) == UNION {[1..k -> S] : k \in lo..hi}

\* Whether one call of collaborator f may fail: both outcomes when f is
\* faulty, success alone otherwise.
Fails(f) == IF f \in faulty THEN BOOLEAN ELSE {FALSE}

\* --------------------------------------------------- Document Normalizer
\* Lines 97-100: an item that is truthy and neither str nor list raises.
FirstPassRaises(doc) == Truthy(doc) /\ ~IsStr(doc) /\ ~IsList(doc)

\* Lines 85-95: what one iteration leaves at batch_documents[idx].
FirstPassItem(doc) ==
    IF ~Truthy(doc) THEN doc
    ELSE IF IsStr(doc) THEN PyList(<<doc>>)
    ELSE IF IsList(doc) THEN PyList(CoerceTokens(doc.l))
    ELSE doc

\* Position (1-based) of the first item on which P holds, 0 when none.
FirstIndex(docs, P(_)) ==
    IF \E i \in 1..Len(docs) : P(docs[i])
    THEN CHOOSE i \in 1..Len(docs) :
             P(docs[i]) /\ \A j \in 1..(i - 1) : ~P(docs[j])
    ELSE 0

\* Lines 84-100: the first loop rewrites the list in place up to the item
\* that raises; the items behind it keep their raw value.
FirstPass(docs) ==
    LET bad == FirstIndex(docs, FirstPassRaises)
    IN [docs |-> [i \in 1..Len(docs) |->
                    IF bad = 0 \/ i < bad THEN FirstPassItem(docs[i])
                    ELSE docs[i]],
        bad |-> bad]

\* A second pass that looks only inside lists and lets an entry that is no
\* list through: C5_StructuralErrorLoggedAndFatal does not hold of it.
SecondPassListsOnly(doc) == IsList(doc) /\ ~All(doc.l, IsStr)

\* Lines 103-106: an entry that is no list of str raises.
SecondPassRaises(doc) == ~IsList(doc) \/ ~All(doc.l, IsStr)
SecondPass(docs) == FirstIndex(docs, SecondPassRaises)

\* Line 86: one warning for every falsy item the first loop reaches.
SkipWarnings(docs, bad) ==
    SetToBag({LogEntry("Skipping empty document at index", i - 1) :
                i \in {j \in 1..Len(docs) :
                         ~Truthy(docs[j]) /\ (bad = 0 \/ j < bad)}})

\* Lines 84-113: both passes inside the try; the ValueError either pass
\* raises is caught by the except of line 112 and logged.
NormalizeResult(docs) ==
    LET first == FirstPass(docs)
        second == IF first.bad = 0 THEN SecondPass(first.docs) ELSE 0
        warned == SkipWarnings(docs, first.bad)
    IN IF first.bad # 0
       THEN [docs |-> first.docs,
             raised |-> Exception("ValueError", first.bad - 1),
             log |-> Logged(Logged(warned, "Unexpected type at index",
                                   first.bad - 1),
                            "Error computing validation_test_data data",
                            first.bad - 1)]
       ELSE IF second # 0
       THEN [docs |-> first.docs,
             raised |-> Exception("ValueError", second - 1),
             log |-> Logged(Logged(warned,
                                   "Document has an unexpected structure",
                                   second - 1),
                            "Error computing validation_test_data data",
                            second - 1)]
       ELSE [docs |-> first.docs, raised |-> NoExc, log |-> warned]

\* ------------------------------------------------------- Corpus Builder
\* Line 138: Dictionary(documents) raises TypeError on a document that is a
\* str or holds a token that is no str.
DictionaryRaises(docs) ==
    \E i \in 1..Len(docs) : ~IsList(docs[i]) \/ ~All(docs[i].l, IsStr)

\* A vocabulary that always holds a reserved token, so that it is never
\* empty: C14_AllEmptyReturnsNone does not hold of it.
DictionaryWithReservedToken(docs) ==
    {PyStr("<unk>")}
        \cup UNION {{docs[i].l[j] : j \in 1..Len(docs[i].l)}
                      : i \in 1..Len(docs)}

\* Line 138: the vocabulary is the set of tokens of the documents.
Dictionary(docs) ==
    UNION {{docs[i].l[j] : j \in 1..Len(docs[i].l)} : i \in 1..Len(docs)}

\* Line 176: doc2bow counts the occurrences of every token of the document
\* that the dictionary knows; a (token id, count) list is kept as the bag of
\* its tokens, ids standing one-to-one for tokens.
doc2bow(dictionary, tokens) ==
    [tok \in {tokens[j] : j \in 1..Len(tokens)} \cap dictionary |->
        Cardinality({j \in 1..Len(tokens) : tokens[j] = tok})]

\* A chunk size without the floor of 1: C22_ChunksizeFormula does not hold
\* of it.
ChunksizeUnguarded(corpus) == Len(corpus) \div 5

\* Line 190
Max(a, b) == IF a >= b THEN a ELSE b
Chunksize(corpus) == Max(1, Len(corpus) \div 5)

\* ------------------------------------------- Metric Computation Pipeline
\* Line 204: DEFAULT_SCORE = 0.25, in units of 1/900.
DEFAULT_SCORE == 225

\* Line 297: np.linspace(0.01, 0.5, 10), in units of 1/900.
fallback_coherence_values == [k \in 0..9 |-> 9 + 49 * k]

\* A fallback that reuses the default score instead of drawing from the
\* candidates: C19_FallbackCoherenceFixed does not hold of it.
FallbackToDefault == DEFAULT_SCORE

\* Lines 296-298: the first bounded draw of a PCG64 generator seeded with
\* 8241984 over ten candidates is index 8.
RngChoiceIndex == 8
FallbackCoherence == fallback_coherence_values[RngChoiceIndex]

\* The values the metric functions return when they do not raise: opaque
\* numbers, one per function.
ComputedScore(fn) ==
    CASE fn = "calculate_perplexity_threshold" -> 310
      [] fn = "calculate_convergence" -> 320
      [] fn = "calculate_perplexity_score" -> 330
      [] fn = "calculate_torch_coherence" -> 340

\* calculate_coherence_metrics: five statistics resampled around the
\* coherence estimate it is given.
calculate_coherence_metrics(real_coherence_value) ==
    [coherence_score |-> real_coherence_value,
     mean_coherence |-> real_coherence_value + 1,
     median_coherence |-> real_coherence_value + 2,
     std_coherence |-> 3,
     mode_coherence |-> real_coherence_value + 4]

\* Lines 207-208: every score starts at the default.
AllCoherence(v) ==
    [coherence_score |-> v, mean_coherence |-> v, median_coherence |-> v,
     std_coherence |-> v, mode_coherence |-> v]
DefaultScores ==
    [threshold |-> DEFAULT_SCORE, convergence_score |-> DEFAULT_SCORE,
     perplexity_score |-> DEFAULT_SCORE,
     negative_log_likelihood |-> DEFAULT_SCORE]

\* ------------------------------------------------------ JSON payloads
\* Lines 324-326: json.dumps([["not_initialized_yet"], ["no_real_data"]])
Payload(kind, arg) == [kind |-> kind, arg |-> arg]
Placeholder == Payload("not_initialized_yet", "")
\* Lines 382, 513, 608: {"error": "Validation data generation failed",
\* "phase": phase}
ErrorSentinel(ph) == Payload("Validation data generation failed", ph)
\* Lines 345, 357: the failed-extraction marker.
FailedExtraction == Payload("failed_extract_topics_with_get_topic_terms", "")

\* The validation results payload: the encoded list, kept as its bag of
\* entries, or a marker.
ValidationPayload(kind, ph, value) ==
    [kind |-> kind, phase |-> ph, value |-> value]
ValidationPlaceholder == ValidationPayload("not_initialized_yet", "", EmptyBag)
ValidationSentinel(ph) ==
    ValidationPayload("Validation data generation failed", ph, EmptyBag)

\* ------------------------------------------- Distributed Batch Executor
\* An entry of validation_results_to_store: the result of a batch, or the
\* failure sentinel of line 477.
BatchResult(future) ==
    [kind |-> "document_topics", batch |-> future, phase |-> ""]
ExecutorSentinel(ph) ==
    [kind |-> "Validation get_document_topics data generation failed",
     batch |-> 0, phase |-> ph]

Min(a, b) == IF a <= b THEN a ELSE b

\* Slices that leave out a short last slice: C25_BatchesPartitionCorpus does
\* not hold of them.
FullSlicesOnly(corpus, size) ==
    [k \in 1..(Len(corpus) \div size) |->
        [slice |-> TRUE,
         docs |-> SubSeq(corpus, (k - 1) * size + 1, k * size)]]

\* Line 410: corpus[i:i + size] for i in range(0, len(corpus), size)
Slices(corpus, size) ==
    [k \in 1..((Len(corpus) + size - 1) \div size) |->
        [slice |-> TRUE,
         docs |-> SubSeq(corpus, (k - 1) * size + 1,
                         Min(k * size, Len(corpus)))]]

\* Line 415: corpus_batches = corpus_data[phase]: every document of the
\* corpus is iterated as if it were a batch.
DocumentsAsBatches(corpus) ==
    [k \in 1..Len(corpus) |-> [slice |-> FALSE, docs |-> <<corpus[k]>>]]

\* A wait that reports every future it is given as not done, the done ones
\* too: C29_AtMostOneEntryPerBatch does not hold of it.
NotDoneIncludesDone(fs, found) == fs

\* Lines 436, 449: wait sorts the futures it is given by their state.
Done(fs, found) == {f \in fs : found[f] # "pending"}
NotDone(fs, found) == {f \in fs : found[f] = "pending"}

\* A retry of every submitted future, done or not: C9_RetryStateMachine
\* does not hold of it.
RetryEverySubmitted(counts, unresolved) ==
    [f \in DOMAIN counts |-> counts[f] + 1]

\* Line 448: client.retry is called once on every future of not_done.
Retried(counts, unresolved) ==
    [f \in DOMAIN counts |->
        IF f \in unresolved THEN counts[f] + 1 ELSE counts[f]]

\* A gathering that forgets the futures done in the retry wait:
\* C8_ResultCount does not hold of it.
FirstWaitOnly(done, retry_done) == SetToBag(done)

\* Lines 458-462: all_done_batches = done_batches + retry_done_batches
AllDoneBatches(done, retry_done) == SetToBag(done) (+) SetToBag(retry_done)

\* Line 465: [r.result(timeout=120) for r in all_done_batches] raises, as a
\* whole, when one fetch raises: that of a future that ended in error, or
\* one that fails or times out.
FetchRaises(all_done, states, failing) ==
    \E f \in BagToSet(all_done) : states[f] = "error" \/ f \in failing
FetchAll(all_done) ==
    [r \in {BatchResult(f) : f \in BagToSet(all_done)} |-> all_done[r.batch]]

\* What the results of process_batch_get_document_topics can hold: plain
\* numbers, numeric arrays, a 0-d array, a table, an arbitrary object, a
\* structure that refers to itself.
ResultShapes == {"scalar", "array", "array0d", "table", "object", "circular"}
FetchedShapes == IF "json.dumps" \in faulty THEN ResultShapes ELSE {"scalar"}

\* The states a wait can find a task in.
TaskStates ==
    {"finished"}
        \cup (IF "task_error" \in faulty THEN {"error"} ELSE {})
        \cup (IF "task_pending" \in faulty THEN {"pending"} ELSE {})

Init ==
    /\ faulty \in FaultSets
    /\ phase \in Phases
    /\ validation_test_data \in
         IF faulty = {}
         THEN SeqsOf(RawItems, 0, MaxDocs) \cup {WellFormed(ScenarioDocs)}
         ELSE {WellFormed(k) : k \in 2..MaxDocs}
    /\ n_topics \in TopicCounts
    /\ unified_dictionary \in
         IF validation_test_data = WellFormed(ScenarioDocs)
         THEN UnifiedVocabularies
         ELSE {{TokA, TokB}}
    /\ pc = "resolve"
    /\ outcome = "running"
    /\ exc = NoExc
    /\ log = EmptyBag
    /\ clock = 0
    /\ time_of_method_call = 0
    /\ batch_documents = <<>>
    /\ unbound = {"batch_documents", "topics_to_store_task"}
    /\ train_val_test_dictionary = {}
    /\ corpus_data = [p \in CorpusPhases |-> <<>>]
    /\ doc_index = 0
    /\ number_of_documents = 0
    /\ failed_convert_token_to_bow = 0
    /\ chunksize = 0
    /\ ldamodel = "unset"
    /\ ldamodel_bytes = "unset"
    /\ model_fits = 0
    /\ model_pickles = 0
    /\ tasks = [t \in {"threshold", "convergence_task", "perplexity_task"}
                  |-> "unset"]
    /\ max_attempts = 0
    /\ coherence = AllCoherence(0)
    /\ scores = [threshold |-> 0, convergence_score |-> 0,
                 perplexity_score |-> 0, negative_log_likelihood |-> 0]
    /\ topics_to_store_task = "unset"
    /\ topics_results_jsonb = Payload("unset", "")
    /\ topic_words_jsonb = Payload("unset", "")
    /\ validation_results_jsonb = ValidationPayload("unset", "", EmptyBag)
    /\ batch_size = 0
    /\ corpus_batches = <<>>
    /\ futures = 0
    /\ status = <<>>
    /\ retry_count = <<>>
    /\ done_batches = {}
    /\ not_done = {}
    /\ retry_done_batches = {}
    /\ retry_not_done = {}
    /\ fetch_failed = {}
    /\ result_shape = "none"
    /\ validation_results_to_store = EmptyBag
    /\ unique_primary_key = 0
    /\ record = [type |-> "unset"]

\* A block that returns None, one that lets an exception through, and one
\* that goes on to the block at `label`.
ReturnNone ==
    /\ pc' = "done"
    /\ outcome' = "None"
    /\ exc' = NoExc

Raise(type) ==
    /\ pc' = "done"
    /\ outcome' = "raised"
    /\ exc' = Exception(type, -1)

Goto(label) ==
    /\ pc' = label
    /\ UNCHANGED <<outcome, exc>>

Tick == clock' = clock + 1

\* Lines 63-76 (and 112-113): entry, then the raw collection is resolved.
\* When dask.compute raises, the except of line 112 logs it and
\* batch_documents is never bound.
Resolve ==
    /\ pc = "resolve"
    /\ Tick
    /\ time_of_method_call' = clock
    /\ \E fails \in Fails("dask.compute") :
         IF fails
         THEN /\ log' = Logged(log,
                         "Error computing validation_test_data data", -1)
              /\ Goto("post_cleaning")
              /\ UNCHANGED normVars
         ELSE /\ batch_documents' = validation_test_data
              /\ unbound' = unbound \ {"batch_documents"}
              /\ Goto("normalize")
              /\ UNCHANGED log
    /\ UNCHANGED <<inputs, corpusVars, modelVars, later>>

\* Lines 84-113: the two normalization passes.
Normalize ==
    /\ pc = "normalize"
    /\ Tick
    /\ LET r == NormalizeResult(batch_documents)
       IN /\ batch_documents' = r.docs
          /\ log' = log (+) r.log
    /\ Goto("post_cleaning")
    /\ UNCHANGED <<inputs, time_of_method_call, unbound, corpusVars,
                   modelVars, later>>

\* Lines 121-125: a single element that is a list of lists is unwrapped.
NeedsUnwrap(docs) == Len(docs) = 1 /\ IsList(docs[1])
CanUnwrap(docs) == All(docs[1].l, IsList)

\* Lines 116-133: the empty-batch check, the one-level unwrapping and the
\* list-of-lists check.  Reading batch_documents when line 76 raised is an
\* UnboundLocalError.
PostCleaning ==
    /\ pc = "post_cleaning"
    /\ Tick
    /\ IF "batch_documents" \in unbound
       THEN /\ Raise("UnboundLocalError")
            /\ UNCHANGED <<log, batch_documents>>
       ELSE IF batch_documents = <<>>
       THEN /\ log' = Logged(log, "All documents were filtered out", -1)
            /\ ReturnNone
            /\ UNCHANGED batch_documents
       ELSE IF NeedsUnwrap(batch_documents) /\ ~CanUnwrap(batch_documents)
       THEN /\ log' = Logged(log, "Nested batch_documents invalid", -1)
            /\ ReturnNone
            /\ UNCHANGED batch_documents
       ELSE LET flat == IF NeedsUnwrap(batch_documents)
                        THEN batch_documents[1].l
                        ELSE batch_documents
            IN /\ batch_documents' = flat
               /\ IF All(flat, IsList)
                  THEN Goto("dictionary") /\ UNCHANGED log
                  ELSE /\ log' = Logged(log, "not a list of lists", -1)
                       /\ ReturnNone
    /\ UNCHANGED <<inputs, time_of_method_call, unbound, corpusVars,
                   modelVars, later>>

\* Lines 136-154: the phase-local Dictionary, its emptiness check and the
\* counters of the conversion loop.
BuildDictionary ==
    /\ pc = "dictionary"
    /\ Tick
    /\ IF DictionaryRaises(batch_documents)
       THEN /\ log' = Logged(log, "data structure is not correct", -1)
            /\ ReturnNone
            /\ UNCHANGED train_val_test_dictionary
       ELSE /\ train_val_test_dictionary' = Dictionary(batch_documents)
            /\ IF Dictionary(batch_documents) = {}
               THEN /\ log' = Logged(log, "Dictionary is empty", -1)
                    /\ ReturnNone
               ELSE Goto("bow") /\ UNCHANGED log
    /\ doc_index' = 1
    /\ number_of_documents' = 0
    /\ failed_convert_token_to_bow' = 0
    /\ UNCHANGED <<inputs, time_of_method_call, normVars, corpus_data,
                   chunksize, modelVars, later>>

\* A store that enters the bag of words twice: C18_CorpusMatchesConversions
\* does not hold of it.
StoredTwice(corpus, bow_out) == Append(Append(corpus, bow_out), bow_out)

\* A store that puts the newest bag of words in front:
\* C21_ConversionKeepsOrder does not hold of it.
StoredInFront(corpus, bow_out) == <<bow_out>> \o corpus

\* Line 178: corpus_data[phase].append(bow_out)
Stored(corpus, bow_out) == Append(corpus, bow_out)

\* Lines 157-184: one iteration of the conversion loop.  Every document is
\* a list here (line 131), so the list() conversion of lines 159-166 is not
\* entered.  An empty document is skipped and counted as failed; doc2bow
\* raising, or corpus_data[phase] raising KeyError, is caught by line 181
\* and counted as failed.
ConvertDocument ==
    /\ pc = "bow"
    /\ doc_index <= Len(batch_documents)
    /\ LET doc_tokens == batch_documents[doc_index].l
       IN \E fails \in Fails("doc2bow") :
            IF doc_tokens = <<>>
            THEN /\ log' = Logged(log, "Skipping empty document.", -1)
                 /\ failed_convert_token_to_bow' =
                        failed_convert_token_to_bow + 1
                 /\ UNCHANGED <<corpus_data, number_of_documents>>
            ELSE IF fails \/ phase \notin CorpusPhases
            THEN /\ log' = Logged(log, "Error processing document", -1)
                 /\ failed_convert_token_to_bow' =
                        failed_convert_token_to_bow + 1
                 /\ UNCHANGED <<corpus_data, number_of_documents>>
            ELSE /\ corpus_data' =
                        [corpus_data EXCEPT ![phase] =
                            Stored(@, doc2bow(train_val_test_dictionary,
                                              doc_tokens))]
                 /\ number_of_documents' = number_of_documents + 1
                 /\ UNCHANGED <<log, failed_convert_token_to_bow>>
    /\ doc_index' = doc_index + 1
    /\ Goto("bow")
    /\ UNCHANGED <<inputs, clock, time_of_method_call, normVars,
                   train_val_test_dictionary, chunksize, modelVars, later>>

\* Lines 189-208: the chunk size and the default scores; len(corpus_data[phase]) raises KeyError
\* for a phase that is no key of corpus_data.
SetChunksize ==
    /\ pc = "bow"
    /\ doc_index > Len(batch_documents)
    /\ Tick
    /\ IF phase \notin CorpusPhases
       THEN Raise("KeyError") /\ UNCHANGED <<chunksize, scores, coherence>>
       ELSE /\ chunksize' = Chunksize(corpus_data[phase])
            /\ scores' = DefaultScores
            /\ coherence' = AllCoherence(DEFAULT_SCORE)
            /\ Goto("model")
    /\ UNCHANGED <<inputs, log, time_of_method_call, normVars,
                   train_val_test_dictionary, corpus_data, doc_index,
                   number_of_documents, failed_convert_token_to_bow,
                   modelVars, tasks, max_attempts, topicVars,
                   validation_results_jsonb, execVars, finalVars>>

\* ------------------------------------------------- Model Stage Selector
\* A handler that logs the failure and goes on with the caller's model in
\* place of the one that could not be fitted: C20_TrainingFailureFatal does
\* not hold of it.
TrainingDefaulted ==
    /\ log' = Logged(log, "An error occurred during LDA model training", -1)
    /\ ldamodel' = "ldamodel_parameter"
    /\ ldamodel_bytes' = "bytes"
    /\ Goto("threshold")

\* Lines 238-240: the except of the train branch logs and re-raises.
TrainingFailed ==
    /\ log' = Logged(log, "An error occurred during LDA model training", -1)
    /\ Raise("LdaModelError")
    /\ UNCHANGED <<ldamodel, ldamodel_bytes>>

\* Line 220: id2word=unified_dictionary, the vocabulary the fitted model
\* maps ids to words with.
id2word == unified_dictionary

\* Lines 210-242: validation and test pickle the caller's model at once;
\* train fits a new model (a failure is logged and re-raised) and defers
\* its pickling; any other phase exits.
ModelStage ==
    /\ pc = "model"
    /\ Tick
    /\ IF phase \in {"validation", "test"}
       THEN \E fails \in Fails("pickle.dumps") :
              /\ model_pickles' = model_pickles + 1
              /\ IF fails
                 THEN /\ Raise("PicklingError")
                      /\ UNCHANGED <<ldamodel, ldamodel_bytes>>
                 ELSE /\ ldamodel_bytes' = "bytes"
                      /\ ldamodel' = "ldamodel_parameter"
                      /\ Goto("threshold")
              /\ UNCHANGED <<log, model_fits>>
       ELSE IF phase = "train"
       THEN \E fails \in Fails("LdaModel") :
              /\ model_fits' = model_fits + 1
              /\ IF fails
                 THEN TrainingFailed
                 ELSE /\ ldamodel' = "trained"
                      /\ ldamodel_bytes' = "delayed"
                      /\ Goto("threshold")
                      /\ UNCHANGED log
              /\ UNCHANGED model_pickles
       ELSE /\ Raise("SystemExit")
            /\ UNCHANGED <<log, modelVars>>
    /\ UNCHANGED <<inputs, time_of_method_call, normVars, corpusVars,
                   later>>

\* Lines 244-250: the perplexity threshold as a deferred task.
\* dask.delayed(f)(args) builds the task and does not call f, so nothing
\* raises inside this try and its except is not entered; f runs at the
\* bulk join of line 639.
CreateThresholdTask ==
    /\ pc = "threshold"
    /\ Tick
    /\ tasks' = [tasks EXCEPT !["threshold"] =
                    "calculate_perplexity_threshold"]
    /\ Goto("coherence")
    /\ UNCHANGED <<inputs, log, time_of_method_call, normVars, corpusVars,
                   modelVars, max_attempts, coherence, scores, topicVars,
                   validation_results_jsonb, execVars, finalVars>>

\* Lines 256-298: the attempt budget (outside every try), the coherence
\* estimate (called at once; on a raise the default takes its place), and
\* the five statistics, computed inside the try of line 270; when that
\* computation raises all five take the seeded draw.
CoherenceFamily ==
    /\ pc = "coherence"
    /\ Tick
    /\ \E fails \in Fails("estimate_batches_large_docs_v2") :
         IF fails
         THEN /\ Raise("EstimateError")
              /\ UNCHANGED <<log, max_attempts, coherence>>
         ELSE /\ max_attempts' = 5
              /\ LET estimate_failed ==
                         "calculate_torch_coherence" \in faulty
                     coherence_task ==
                         IF estimate_failed THEN DEFAULT_SCORE
                         ELSE ComputedScore("calculate_torch_coherence")
                     metrics_failed ==
                         "calculate_coherence_metrics" \in faulty
                     l1 == IF estimate_failed
                           THEN Logged(log,
                                  "calculate_torch_coherence failed", -1)
                           ELSE log
                 IN /\ coherence' =
                          IF metrics_failed
                          THEN AllCoherence(FallbackCoherence)
                          ELSE calculate_coherence_metrics(coherence_task)
                    /\ log' =
                          IF metrics_failed
                          THEN Logged(l1,
                                 "Sample coherence scores calculation failed",
                                 -1)
                          ELSE l1
              /\ Goto("convergence")
    /\ UNCHANGED <<inputs, time_of_method_call, normVars, corpusVars,
                   modelVars, tasks, scores, topicVars,
                   validation_results_jsonb, execVars, finalVars>>

\* Lines 302-320: convergence and perplexity as deferred tasks; as for the
\* threshold, neither function runs here.
CreateConvergencePerplexityTasks ==
    /\ pc = "convergence"
    /\ Tick
    /\ tasks' = [tasks EXCEPT !["convergence_task"] = "calculate_convergence",
                              !["perplexity_task"] =
                                  "calculate_perplexity_score"]
    /\ Goto("extract")
    /\ UNCHANGED <<inputs, log, time_of_method_call, normVars, corpusVars,
                   modelVars, max_attempts, coherence, scores, topicVars,
                   validation_results_jsonb, execVars, finalVars>>

\* ------------------------------------------------------ Topic extraction
\* Lines 323-384: the three payloads start as placeholders.  When
\* extract_topics_with_get_topic_terms raises, topics_to_store_task is never
\* bound.  When computing the task or encoding its result raises, the
\* failure marker list is passed through convert_float32_to_float.
ExtractTopics ==
    /\ pc = "extract"
    /\ Tick
    /\ topic_words_jsonb' = Placeholder
    /\ validation_results_jsonb' = ValidationPlaceholder
    /\ IF "extract_topics_with_get_topic_terms" \in faulty
       THEN /\ log' = Logged(log, "failed to extract topics", -1)
            /\ topics_results_jsonb' = FailedExtraction
            /\ UNCHANGED <<topics_to_store_task, unbound>>
       ELSE /\ topics_to_store_task' = "delayed"
            /\ unbound' = unbound \ {"topics_to_store_task"}
            /\ \E fails \in Fails("json.dumps") :
                 IF "topics_to_store_task" \in faulty \/ fails
                 THEN /\ log' = Logged(log, "Error extracting topics", -1)
                      /\ topics_results_jsonb' =
                             Payload("convert_float32_to_float",
                                     FailedExtraction.kind)
                 ELSE /\ topics_results_jsonb' =
                             Payload("json", "topics_results_to_store")
                      /\ UNCHANGED log
    /\ Goto("batches")
    /\ UNCHANGED <<inputs, time_of_method_call, batch_documents, corpusVars,
                   modelVars, metricVars, execVars, finalVars>>

\* An outer handler that only logs and leaves the result list as it is:
\* C10_UnhandledRaiseYieldsSentinel does not hold of it.
YieldNothing ==
    /\ UNCHANGED validation_results_to_store
    /\ Goto("serialize")

\* The except of lines 475-477: the result is the one-element sentinel
\* list, and the call goes on to the serializer.
YieldSentinel ==
    /\ validation_results_to_store' = SetToBag({ExecutorSentinel(phase)})
    /\ Goto("serialize")

\* Lines 397-415: the batch size and the batches.  When the heuristic
\* raises, batch_size keeps -1 and the corpus itself is taken as the list of
\* batches.
BuildBatches ==
    /\ pc = "batches"
    /\ Tick
    /\ validation_results_to_store' = EmptyBag
    /\ \E fails \in Fails("estimate_batches_large_docs_v2"),
          estimate \in 1..MaxBatchSize :
         LET corpus == corpus_data[phase]
             clamped == Min(Len(corpus), estimate)
             size == IF clamped = 0 THEN 5 ELSE clamped
         IN IF fails
            THEN /\ batch_size' = -1
                 /\ corpus_batches' = DocumentsAsBatches(corpus)
                 /\ log' = Logged(log,
                             "Utilizing entire corpus for document topic calculation.",
                             -1)
            ELSE /\ batch_size' = size
                 /\ corpus_batches' = Slices(corpus, size)
                 /\ UNCHANGED log
    /\ Goto("submit")
    /\ UNCHANGED <<inputs, time_of_method_call, normVars, corpusVars,
                   modelVars, metricVars, topicVars,
                   validation_results_jsonb, futures, status, retry_count,
                   waitVars, fetchVars, finalVars>>

\* Lines 417-433: the submission loop; client.submit raising at some batch
\* ends the loop with the futures submitted so far, and is only logged.
SubmitBatches ==
    /\ pc = "submit"
    /\ Tick
    /\ \E submitted \in 0..Len(corpus_batches) :
         /\ submitted < Len(corpus_batches) => "client.submit" \in faulty
         /\ futures' = submitted
         /\ status' = [f \in 1..submitted |-> "pending"]
         /\ retry_count' = [f \in 1..submitted |-> 0]
         /\ log' = IF submitted < Len(corpus_batches)
                   THEN Logged(log, "SOURCE OF ERROR FOUND(0)", submitted)
                   ELSE log
    /\ Goto("wait")
    /\ UNCHANGED <<inputs, time_of_method_call, normVars, corpusVars,
                   modelVars, metricVars, topicVars,
                   validation_results_jsonb, batch_size, corpus_batches,
                   waitVars, fetchVars, validation_results_to_store,
                   finalVars>>

\* One logging record per future of the set.
LogEach(msg, fs) == SetToBag({LogEntry(msg, f) : f \in fs})

\* Lines 435-442: the first wait sorts the futures into done and not done;
\* every done future that ended in error is logged.
FirstWait ==
    /\ pc = "wait"
    /\ Tick
    /\ \E fails \in Fails("wait"), found \in [1..futures -> TaskStates] :
         IF fails
         THEN /\ YieldSentinel
              /\ log' = Logged(log,
                          "Error while computing validation results task", -1)
              /\ UNCHANGED <<status, done_batches, not_done>>
         ELSE /\ status' = found
              /\ done_batches' = Done(1..futures, found)
              /\ not_done' = NotDone(1..futures, found)
              /\ log' = log (+) LogEach("Future failed with exception",
                                  {f \in 1..futures : found[f] = "error"})
              /\ Goto("retry")
              /\ UNCHANGED validation_results_to_store
    /\ UNCHANGED <<inputs, time_of_method_call, normVars, corpusVars,
                   modelVars, metricVars, topicVars,
                   validation_results_jsonb, batch_size, corpus_batches,
                   futures, retry_count, retry_done_batches, retry_not_done,
                   fetchVars, finalVars>>

\* Lines 444-455: every future of not_done is retried once and the retried
\* futures are waited for; those still not done are logged, one record
\* each after the summary record.  client.retry raising ends the
\* comprehension of line 448 with only some of the futures retried.
RetryUnresolved ==
    /\ pc = "retry"
    /\ Tick
    /\ IF not_done = {}
       THEN /\ retry_done_batches' = {}
            /\ retry_not_done' = {}
            /\ Goto("gather")
            /\ UNCHANGED <<log, status, retry_count,
                           validation_results_to_store>>
       ELSE \E retry_fails \in Fails("client.retry"),
               wait_fails \in Fails("wait"),
               found \in [not_done -> TaskStates] :
              LET warned == Logged(log, "Retrying unresolved tasks",
                                   Cardinality(not_done))
              IN IF retry_fails
                 THEN /\ \E reached \in (SUBSET not_done) \ {not_done} :
                           retry_count' = Retried(retry_count, reached)
                      /\ YieldSentinel
                      /\ log' = Logged(warned,
                                  "Error while computing validation results task",
                                  -1)
                      /\ UNCHANGED <<status, retry_done_batches,
                                     retry_not_done>>
                 ELSE /\ retry_count' = Retried(retry_count, not_done)
                      /\ IF wait_fails
                         THEN /\ YieldSentinel
                              /\ log' = Logged(warned,
                                          "Error while computing validation results task",
                                          -1)
                              /\ UNCHANGED <<status, retry_done_batches,
                                             retry_not_done>>
                         ELSE LET unresolved == NotDone(not_done, found)
                              IN /\ status' =
                                        [f \in 1..futures |->
                                           IF f \in not_done THEN found[f]
                                           ELSE status[f]]
                                 /\ retry_done_batches' = Done(not_done, found)
                                 /\ retry_not_done' = unresolved
                                 /\ log' =
                                        IF unresolved = {} THEN warned
                                        ELSE Logged(warned,
                                               "tasks remain unresolved after retry",
                                               Cardinality(unresolved))
                                             (+) LogEach(
                                               "Unresolved task after retry",
                                               unresolved)
                                 /\ Goto("gather")
                                 /\ UNCHANGED validation_results_to_store
    /\ UNCHANGED <<inputs, time_of_method_call, normVars, corpusVars,
                   modelVars, metricVars, topicVars,
                   validation_results_jsonb, batch_size, corpus_batches,
                   futures, done_batches, not_done, fetchVars, finalVars>>

\* Lines 457-473: the results of all done futures are fetched in one list
\* comprehension.  The fetch of a future that ended in error raises its
\* exception, and a fetch can fail or time out; either is caught by line 468
\* and leaves validation_results_to_store as line 400 set it.
GatherResults ==
    /\ pc = "gather"
    /\ Tick
    /\ LET all_done_batches ==
               AllDoneBatches(done_batches, retry_done_batches)
       IN \E failing \in IF "Future.result" \in faulty
                          THEN SUBSET BagToSet(all_done_batches) ELSE {{}} :
            /\ fetch_failed' = failing
            /\ IF FetchRaises(all_done_batches, status, failing)
               THEN /\ log' = Logged(log,
                                "Error in r.result() for r in done_batches",
                                -1)
                    /\ UNCHANGED <<validation_results_to_store,
                                   result_shape>>
               ELSE /\ validation_results_to_store' =
                           FetchAll(all_done_batches)
                    /\ result_shape' \in
                           IF all_done_batches = EmptyBag THEN {"none"}
                           ELSE FetchedShapes
                    /\ log' = Logged(log, "Completed processing documents",
                                BagCardinality(all_done_batches))
    /\ Goto("serialize")
    /\ UNCHANGED <<inputs, time_of_method_call, normVars, corpusVars,
                   modelVars, metricVars, topicVars,
                   validation_results_jsonb, batch_size, corpus_batches,
                   futures, status, retry_count, waitVars, finalVars>>

\* ---------------------------------------------------- Resilient Serializer
\* A first attempt that handles every shape: C12_SerializerNeverRaises does
\* not hold of it.
FirstAttemptAlwaysEncodes(shape) == FALSE

\* Lines 481-489: json.dumps with the default hook.  The hook turns numpy
\* and Decimal numbers into numbers, an array into list(obj), anything else
\* into str(obj); list(obj) raises on a 0-d array, and no hook helps with a
\* circular reference.
FirstAttemptRaises(shape) == shape \in {"array0d", "circular"}
\* Line 487: a table or an arbitrary object is encoded as its str(obj).
FirstAttemptKind(shape) ==
    IF shape \in {"table", "object"} THEN "json_of_str" ELSE "json"
\* Line 494: json.dumps with NumpyEncoder, which knows numeric arrays.
SecondAttemptRaises(shape) == shape = "circular"
\* Lines 500-509: validation_results_to_store is a list, so the third
\* attempt is the plain json.dumps of line 509.
ThirdAttemptRaises(shape) == shape \in {"array0d", "circular"}

\* Lines 480-513: how many of the three attempts raise.
AttemptsFailed(shape) ==
    IF ~FirstAttemptRaises(shape) THEN 0
    ELSE IF ~SecondAttemptRaises(shape) THEN 1
    ELSE IF ~ThirdAttemptRaises(shape) THEN 2
    ELSE 3

\* Lines 480-513: three encoding attempts in order, then the error
\* sentinel; every except clause catches Exception.
SerializeValidationResults ==
    /\ pc = "serialize"
    /\ Tick
    /\ LET failed == AttemptsFailed(result_shape)
       IN /\ validation_results_jsonb' =
               IF failed = 3 THEN ValidationSentinel(phase)
               ELSE ValidationPayload(
                        IF failed = 0 THEN FirstAttemptKind(result_shape)
                        ELSE "json",
                        "", validation_results_to_store)
          /\ log' = log (+) SetToBag({LogEntry("serialization attempt failed", k)
                                        : k \in 1..failed})
    /\ Goto("topic_words")
    /\ UNCHANGED <<inputs, time_of_method_call, normVars, corpusVars,
                   modelVars, metricVars, topicVars, execVars, finalVars>>

\* Line 516: `not validation_results_jsonb`; json.dumps never returns the
\* empty text.
IsEmptyText(payload) == payload.kind = ""

\* Lines 515-608: the checks of the batch and of the model and the
\* topic-word encoding all stand inside the `if` of line 516.
TopicWordsBlock ==
    /\ pc = "topic_words"
    /\ Tick
    /\ IF IsEmptyText(validation_results_jsonb)
       THEN /\ log' = Logged(log, "Final serialization failed", -1)
            /\ topic_words_jsonb' =
                 IF "json.dumps" \in faulty THEN ErrorSentinel(phase)
                 ELSE Payload("json", "topic_words")
       ELSE UNCHANGED <<log, topic_words_jsonb>>
    /\ Goto("identity")
    /\ UNCHANGED <<inputs, time_of_method_call, normVars, corpusVars,
                   modelVars, metricVars, topics_to_store_task,
                   topics_results_jsonb, validation_results_jsonb, execVars,
                   finalVars>>

\* ------------------------------------------------------ Metadata Assembler
\* Lines 611-636: the identity key from two random draws and the time of
\* this line; time_of_method_call is assigned again here.
IdentityKey ==
    /\ pc = "identity"
    /\ Tick
    /\ unique_primary_key' \in 1..NumKeys
    /\ time_of_method_call' = clock
    /\ Goto("join")
    /\ UNCHANGED <<inputs, log, normVars, corpusVars, modelVars, metricVars,
                   topicVars, validation_results_jsonb, execVars, record>>

\* The functions the bulk join evaluates.
JoinedFunctions ==
    {tasks[t] : t \in DOMAIN tasks}
        \cup (IF topics_to_store_task = "delayed"
              THEN {"topics_to_store_task"} ELSE {})

\* Lines 638-641: dask.compute of threshold, convergence_task,
\* perplexity_task and topics_to_store_task, outside every try.  Naming
\* topics_to_store_task when line 341 raised is an UnboundLocalError; a
\* task whose function raises makes dask.compute raise.
BulkJoin ==
    /\ pc = "join"
    /\ Tick
    /\ IF "topics_to_store_task" \in unbound
       THEN Raise("UnboundLocalError") /\ UNCHANGED scores
       ELSE IF JoinedFunctions \cap faulty # {}
       THEN Raise("ComputeError") /\ UNCHANGED scores
       ELSE /\ scores' =
                 [scores EXCEPT
                    !.threshold = ComputedScore(tasks["threshold"]),
                    !.convergence_score =
                        ComputedScore(tasks["convergence_task"]),
                    !.perplexity_score =
                        ComputedScore(tasks["perplexity_task"])]
            /\ Goto("assemble")
    /\ UNCHANGED <<inputs, log, time_of_method_call, normVars, corpusVars,
                   modelVars, tasks, max_attempts, coherence, topicVars,
                   validation_results_jsonb, execVars, finalVars>>

\* Line 654: the tokens of all documents in one list.
RECURSIVE Flatten(_)
Flatten(docs) ==
    IF docs = <<>> THEN <<>> ELSE Head(docs).l \o Flatten(Tail(docs))

\* Lines 661-662, 681-682: a digest stands for the text it is taken of, the
\* flattened tokens followed by the identity key.
Digest(algorithm, tokens, key) ==
    [algorithm |-> algorithm, tokens |-> tokens, key |-> key]

\* Lines 664-722: current_increment_data.
CurrentIncrementData(model_bytes) ==
    [time_key |-> unique_primary_key,
     type |-> phase,
     start_time |-> time_of_method_call,
     end_time |-> clock,
     batch_size |-> batch_size,
     num_word |-> Len(Flatten(batch_documents)),
     max_attempts |-> max_attempts,
     top_topics |-> topic_words_jsonb,
     topics_words |-> topics_results_jsonb,
     validation_result |-> validation_results_jsonb,
     text_sha256 |-> Digest("sha256", Flatten(batch_documents),
                            unique_primary_key),
     text_md5 |-> Digest("md5", Flatten(batch_documents),
                         unique_primary_key),
     topics |-> n_topics,
     chunksize |-> chunksize,
     convergence |-> scores.convergence_score,
     nll |-> scores.negative_log_likelihood,
     perplexity |-> scores.perplexity_score,
     coherence |-> coherence.coherence_score,
     mean_coherence |-> coherence.mean_coherence,
     median_coherence |-> coherence.median_coherence,
     mode_coherence |-> coherence.mode_coherence,
     std_coherence |-> coherence.std_coherence,
     perplexity_threshold |-> scores.threshold,
     lda_model |-> model_bytes,
     create_pylda |-> "None",
     create_pcoa |-> "None",
     create_pca_gpu |-> "None"]

\* A store conversion that writes the unset visualization flags as text:
\* C16_TrainRecordFields does not hold of it.
DbDataNoneAsText(data) ==
    [key \in DOMAIN data |->
        IF key \in {"create_pylda", "create_pcoa", "create_pca_gpu"}
        THEN "null" ELSE data[key]]

\* safe_serialize_for_postgres: the store-compatible form of a value;
\* numbers, text, None and encoded payloads are kept as they are.
safe_serialize_for_postgres(value) == value

\* Lines 725-727: the deep copy with every value converted for the store.
DbData(data) ==
    [key \in DOMAIN data |-> safe_serialize_for_postgres(data[key])]

\* Lines 643-737: the record.  ldamodel_bytes.compute() is called in every
\* phase: on the deferred pickling of the train phase it runs pickle.dumps,
\* on the bytes of the other phases it is an AttributeError.
AssembleRecord ==
    /\ pc = "assemble"
    /\ Tick
    /\ IF ldamodel_bytes = "bytes"
       THEN Raise("AttributeError") /\ UNCHANGED <<record, model_pickles>>
       ELSE \E fails \in Fails("pickle.dumps") :
              /\ model_pickles' = model_pickles + 1
              /\ IF fails
                 THEN Raise("PicklingError") /\ UNCHANGED record
                 ELSE /\ record' = DbData(CurrentIncrementData(ldamodel))
                      /\ pc' = "done"
                      /\ outcome' = "record"
                      /\ exc' = NoExc
    /\ UNCHANGED <<inputs, log, time_of_method_call, normVars, corpusVars,
                   ldamodel, ldamodel_bytes, model_fits, metricVars,
                   topicVars, validation_results_jsonb, execVars,
                   unique_primary_key>>

Next ==
    \/ Resolve
    \/ Normalize
    \/ PostCleaning
    \/ BuildDictionary
    \/ ConvertDocument
    \/ SetChunksize
    \/ ModelStage
    \/ CreateThresholdTask
    \/ CoherenceFamily
    \/ CreateConvergencePerplexityTasks
    \/ ExtractTopics
    \/ BuildBatches
    \/ SubmitBatches
    \/ FirstWait
    \/ RetryUnresolved
    \/ GatherResults
    \/ SerializeValidationResults
    \/ TopicWordsBlock
    \/ IdentityKey
    \/ BulkJoin
    \/ AssembleRecord

Spec == Init /\ [][Next]_vars

\* ================================================================ claims
\* The call has ended.
Finished == pc = "done"
\* The model stage has produced the model (for train, fitting succeeded).
PastModelStage == ldamodel # "unset"
\* The batch executor has just yielded its result.
ExecutorLeft == pc = "serialize"
\* Some logging record carries the message.
HasLogged(msg) == \E e \in BagToSet(log) : e.msg = msg
\* The executor's result is the one-element sentinel list.
SentinelResult ==
    validation_results_to_store = SetToBag({ExecutorSentinel(phase)})

\* ---- C1 ----------------------------------------------------------------
\* The failures C1 lists: topic extraction, the metric functions, a
\* submitted batch task, a result fetch, a serialization step.
C1Failures ==
    MetricFunctions
        \cup {"extract_topics_with_get_topic_terms", "topics_to_store_task",
              "task_error", "task_pending", "Future.result", "json.dumps",
              "pickle.dumps"}

\* C1: once past normalization, vocabulary construction and the model
\* stage, a call in which only the listed collaborators fail ends by
\* returning a complete record; it neither raises nor returns None.
C1_AlwaysReturnsRecord ==
    (Finished /\ PastModelStage /\ faulty \subseteq C1Failures)
        => outcome = "record"

\* ---- C2 ----------------------------------------------------------------
\* What C2 expects in the field of a metric computed by fn.
C2Expected(fn) ==
    IF fn \in faulty THEN DEFAULT_SCORE ELSE ComputedScore(fn)
C2ExpectedCoherence ==
    IF {"calculate_torch_coherence", "calculate_coherence_metrics"}
           \cap faulty # {}
    THEN DEFAULT_SCORE
    ELSE calculate_coherence_metrics(
             ComputedScore("calculate_torch_coherence")).coherence_score

\* C2: whichever of the four metric computations raise when evaluated, the
\* call returns a record whose failing metrics hold the default score and
\* whose other metrics hold their computed value.
C2_MetricFailuresIsolated ==
    (Finished /\ PastModelStage /\ faulty \subseteq MetricFunctions)
        => /\ outcome = "record"
           /\ record.perplexity_threshold =
                  C2Expected("calculate_perplexity_threshold")
           /\ record.convergence = C2Expected("calculate_convergence")
           /\ record.perplexity = C2Expected("calculate_perplexity_score")
           /\ record.coherence = C2ExpectedCoherence

\* ---- C3 ----------------------------------------------------------------
\* C3: in phase validation or test, with every collaborator working, no
\* model is fitted, the caller's model is the one used, it is pickled
\* exactly once, and the call returns a record holding those bytes.
C3_ReusedModelSerializedOnce ==
    (Finished /\ PastModelStage /\ phase \in {"validation", "test"}
       /\ faulty = {})
        => /\ model_fits = 0
           /\ ldamodel = "ldamodel_parameter"
           /\ model_pickles = 1
           /\ outcome = "record"
           /\ record.lda_model = "ldamodel_parameter"

\* ---- C4 ----------------------------------------------------------------
\* A non-empty list of strings.
NonEmptyTokenList(doc) == IsList(doc) /\ doc.l # <<>> /\ All(doc.l, IsStr)

\* C4: every document of the batch handed to the vocabulary builder is a
\* non-empty list of strings.
C4_NormalizedDocumentsNonEmpty ==
    pc = "dictionary" => All(batch_documents, NonEmptyTokenList)

\* ---- C5 ----------------------------------------------------------------
\* An item that is neither a string nor a list, and a valid token list.
Offending(item) == ~IsStr(item) /\ ~IsList(item)
ValidTokenList(item) ==
    /\ IsList(item)
    /\ item.l # <<>>
    /\ \A j \in 1..Len(item.l) : IsStr(item.l[j]) /\ Truthy(item.l[j])
OffendingItems ==
    {i \in 1..Len(validation_test_data) : Offending(validation_test_data[i])}
\* The raw collection holds one offending item among valid token lists.
C5Case ==
    /\ faulty = {}
    /\ Len(validation_test_data) >= 2
    /\ Cardinality(OffendingItems) = 1
    /\ \A i \in 1..Len(validation_test_data) :
         i \in OffendingItems \/ ValidTokenList(validation_test_data[i])
\* The Python index of the offending item.
C5Index == (CHOOSE i \in OffendingItems : TRUE) - 1

\* C5 as claimed: the ValueError naming the offending index leaves the
\* call.
C5_StructuralErrorReachesCaller ==
    (C5Case /\ Finished)
        => outcome = "raised" /\ exc = Exception("ValueError", C5Index)

\* C5 as amended: the ValueError naming the offending index is raised,
\* caught and logged inside the call, which then returns None before the
\* vocabulary is built: no exception leaves it and no record is produced.
C5_StructuralErrorLoggedAndFatal ==
    C5Case =>
        /\ pc \notin {"resolve", "normalize"} =>
             BagIn(LogEntry("Error computing validation_test_data data",
                            C5Index), log)
        /\ pc \notin {"resolve", "normalize", "post_cleaning"} =>
             /\ Finished
             /\ outcome = "None"
             /\ exc = NoExc
             /\ record.type = "unset"
             /\ train_val_test_dictionary = {}
             /\ model_fits = 0

\* A call of C5's case has ended, the offending item being a falsy integer
\* behind a valid token list.
C5_Witness ==
    /\ C5Case
    /\ Finished
    /\ C5Index = 1
    /\ validation_test_data[2] = PyInt(0)

\* ---- C6 ----------------------------------------------------------------
\* The raw collection is one element that is a list of token lists.
C6Case ==
    /\ faulty = {}
    /\ Len(validation_test_data) = 1
    /\ IsList(validation_test_data[1])
    /\ validation_test_data[1].l # <<>>
    /\ All(validation_test_data[1].l, ValidTokenList)

\* C6: a singly nested collection is unwrapped one level: the inner token
\* lists are the documents of the normalized batch, and the call goes on to
\* the vocabulary.
C6_SinglyNestedUnwrapped ==
    (C6Case /\ pc \notin {"resolve", "normalize", "post_cleaning"})
        => /\ outcome # "None"
           /\ batch_documents = validation_test_data[1].l

\* ---- C7 ----------------------------------------------------------------
\* C7: when the executor has gathered, the result list holds the result of
\* every batch that ended successfully and whose own fetch did not fail,
\* whatever happened to the other batches, and the call goes on.
C7_FailedBatchLosesOnlyItself ==
    (ExecutorLeft /\ ~SentinelResult)
        => /\ outcome = "running"
           /\ \A f \in done_batches \cup retry_done_batches :
                (status[f] = "finished" /\ f \notin fetch_failed)
                    => BagIn(BatchResult(f), validation_results_to_store)

\* ---- C8 ----------------------------------------------------------------
\* No step of the executor raised, no task ended in error, no fetch failed.
C8Case ==
    /\ ExecutorLeft
    /\ ~SentinelResult
    /\ \A f \in 1..futures : status[f] # "error"
    /\ fetch_failed = {}

\* C8: with N submitted batches of which K are unresolved after the retry
\* wait (K = 0 when all resolve), the result list has N - K entries and
\* there is exactly one unresolved-task record per unresolved batch.
C8_ResultCount ==
    C8Case =>
        /\ BagCardinality(validation_results_to_store)
               = futures - Cardinality(retry_not_done)
        /\ \A f \in 1..futures :
             CopiesIn(LogEntry("Unresolved task after retry", f), log)
                 = IF f \in retry_not_done THEN 1 ELSE 0

\* Three batches were submitted; one is unresolved after the retry, one
\* resolved in the retry wait and one in the first wait.
C8_Witness ==
    /\ C8Case
    /\ futures = 3
    /\ Cardinality(retry_not_done) = 1
    /\ Cardinality(retry_done_batches) = 1
    /\ BagCardinality(validation_results_to_store) = 2

ConstructionRaised ==
    HasLogged("Utilizing entire corpus for document topic calculation.")
SubmissionRaised == HasLogged("SOURCE OF ERROR FOUND(0)")
WaitOrRetryRaised ==
    HasLogged("Error while computing validation results task")
GatheringRaised == HasLogged("Error in r.result() for r in done_batches")

\* C10 as claimed: whichever step of the executor raises, nothing
\* propagates and the result is the one-element sentinel list.
C10_AnyRaiseYieldsSentinel ==
    (ExecutorLeft
       /\ (ConstructionRaised \/ SubmissionRaised \/ WaitOrRetryRaised
             \/ GatheringRaised))
        => outcome = "running" /\ SentinelResult

\* C10 as amended: no raise of an executor step propagates; the result is
\* the one-element sentinel list exactly when a wait or the retry raised,
\* while a raise in batch construction, submission or gathering is caught
\* by its own handler and puts no sentinel in the list.
C10_UnhandledRaiseYieldsSentinel ==
    ExecutorLeft =>
        /\ outcome = "running"
        /\ WaitOrRetryRaised <=> SentinelResult
        /\ ~WaitOrRetryRaised
               => ~BagIn(ExecutorSentinel(phase),
                         validation_results_to_store)

\* The retry raised after the first wait left a batch not done.
C10_Witness ==
    /\ ExecutorLeft
    /\ WaitOrRetryRaised
    /\ not_done # {}
    /\ SentinelResult

\* ---- C11 ---------------------------------------------------------------
\* C11: when the call reaches record assembly, the topic-word payload is the
\* encoding of the model's topic words or the error sentinel of the phase,
\* never the initial placeholder, and so is the record's top_topics.
C11_TopicWordsSerialized ==
    /\ pc = "assemble" =>
         topic_words_jsonb \in {Payload("json", "topic_words"),
                                ErrorSentinel(phase)}
    /\ outcome = "record" => record.top_topics # Placeholder

\* ---- C12 ---------------------------------------------------------------
\* The serializer of the validation results has just run on fetched
\* results of the given shape.
SerializedShape(shapes) == pc = "topic_words" /\ result_shape \in shapes
\* The payload is parseable text that encodes the result list.
ParseableEncoding ==
    /\ validation_results_jsonb.kind \in {"json", "json_of_str"}
    /\ validation_results_jsonb.value = validation_results_to_store

\* C12 as claimed: the serializer never raises; arrays, tables and plain
\* scalars give a parseable encoding; a value the JSON encoder cannot
\* serialize gives exactly the error sentinel of the phase.
C12_UnserializableYieldsSentinel ==
    /\ pc = "topic_words" => outcome = "running"
    /\ SerializedShape({"scalar", "array", "array0d", "table"})
         => ParseableEncoding
    /\ SerializedShape({"object", "circular"})
         => validation_results_jsonb = ValidationSentinel(phase)

\* C12 as amended: the serializer never raises; arrays and plain scalars
\* are encoded as numbers; a table or an object the JSON encoder does not
\* know is encoded as its string form by the first attempt; the payload is
\* the error sentinel of the phase exactly when all three attempts raise.
C12_SerializerNeverRaises ==
    /\ pc = "topic_words" => outcome = "running"
    /\ SerializedShape({"none", "scalar", "array", "array0d"}) =>
         validation_results_jsonb =
             ValidationPayload("json", "", validation_results_to_store)
    /\ SerializedShape({"table", "object"}) =>
         validation_results_jsonb =
             ValidationPayload("json_of_str", "",
                               validation_results_to_store)
    /\ SerializedShape({"circular"}) =>
         /\ validation_results_jsonb = ValidationSentinel(phase)
         /\ CopiesIn(LogEntry("serialization attempt failed", 3), log) = 1
    /\ (pc = "topic_words"
          /\ validation_results_jsonb = ValidationSentinel(phase))
         => result_shape = "circular"

\* The serializer ended in the sentinel for results that refer to
\* themselves.
C12_Witness ==
    /\ SerializedShape({"circular"})
    /\ validation_results_jsonb = ValidationSentinel(phase)
    /\ validation_results_to_store # EmptyBag

\* ---- C13 ---------------------------------------------------------------
\* Phase validation with the caller's model in use, every conversion to a
\* bag of words having failed.
C13Case ==
    /\ phase = "validation"
    /\ faulty = {"doc2bow"}
    /\ ldamodel = "ldamodel_parameter"
    /\ corpus_data["validation"] = <<>>

\* C13: in phase validation with a corpus of 0 documents the validation
\* payload is the error sentinel of the phase, and the call returns a record
\* that holds it and whose metric fields all hold the default score.
C13_EmptyCorpusYieldsSentinelRecord ==
    /\ (C13Case /\ pc = "topic_words")
         => validation_results_jsonb = ValidationSentinel("validation")
    /\ (C13Case /\ Finished)
         => /\ outcome = "record"
            /\ record.validation_result = ValidationSentinel("validation")
            /\ record.perplexity_threshold = DEFAULT_SCORE
            /\ record.convergence = DEFAULT_SCORE
            /\ record.perplexity = DEFAULT_SCORE
            /\ record.coherence = DEFAULT_SCORE

\* ---- C14 ---------------------------------------------------------------
\* Every item of the raw collection is None, the empty string or the empty
\* list (the collection may itself be empty), and it resolves.
C14Case ==
    /\ faulty = {}
    /\ \A i \in 1..Len(validation_test_data) :
         validation_test_data[i] \in {PyNone, PyStr(""), PyList(<<>>)}

\* C14: a call on an all-empty collection ends by returning None: no
\* exception leaves it, no model is fitted or reused, no batch is submitted
\* and no record is produced.
C14_AllEmptyReturnsNone ==
    C14Case =>
        /\ pc \in {"resolve", "normalize", "post_cleaning", "dictionary",
                   "done"}
        /\ Finished => outcome = "None"
        /\ exc = NoExc
        /\ model_fits = 0
        /\ ldamodel = "unset"
        /\ futures = 0
        /\ record.type = "unset"

\* A call on two empty lists, which pass both structural checks and reach
\* the vocabulary, has ended.
C14_Witness ==
    /\ C14Case
    /\ Finished
    /\ validation_test_data = <<PyList(<<>>), PyList(<<>>)>>
    /\ HasLogged("Dictionary is empty")

\* ---- C15 ---------------------------------------------------------------
\* C15: the content digests of a record are reproducible: they are the
\* digests an invocation over the same normalized batch gets whichever
\* identity key it draws.
C15_DigestsReproducible ==
    outcome = "record" =>
        \A key \in 1..NumKeys :
            /\ record.text_sha256 =
                   Digest("sha256", Flatten(batch_documents), key)
            /\ record.text_md5 =
                   Digest("md5", Flatten(batch_documents), key)

\* ---- C16 ---------------------------------------------------------------
\* The scenario: phase train, a valid batch of ScenarioDocs token lists,
\* topic count ScenarioTopics, no collaborator failing.
C16Scenario ==
    /\ phase = "train"
    /\ faulty = {}
    /\ validation_test_data = WellFormed(ScenarioDocs)
    /\ n_topics = ScenarioTopics

\* C16: every record a train-phase call returns has topics equal to the
\* topic count it was given, type 'train' and the three visualization flags
\* unset; the call of the scenario returns such a record.
C16_TrainRecordFields ==
    /\ (outcome = "record" /\ phase = "train") =>
         /\ record.topics = n_topics
         /\ record.type = "train"
         /\ record.create_pylda = "None"
         /\ record.create_pcoa = "None"
         /\ record.create_pca_gpu = "None"
    /\ (C16Scenario /\ Finished) => outcome = "record"

\* The call of the scenario has returned its record.
C16_Witness ==
    /\ C16Scenario
    /\ outcome = "record"
    /\ Len(batch_documents) = ScenarioDocs
    /\ record.topics = ScenarioTopics
    /\ record.type = "train"

\* ---- C17 ---------------------------------------------------------------
\* C17: for a phase other than train, validation and test the call is
\* aborted before the model stage: no model is fitted or reused, no batch
\* is submitted and no record is returned.
C17_UnknownPhaseAborts ==
    phase \notin {"train", "validation", "test"} =>
        /\ pc \in {"resolve", "normalize", "post_cleaning", "dictionary",
                   "bow", "done"}
        /\ Finished => outcome \in {"None", "raised"}
        /\ model_fits = 0
        /\ model_pickles = 0
        /\ ldamodel = "unset"
        /\ futures = 0
        /\ record.type = "unset"

\* A call with another phase got through normalization and the vocabulary,
\* failed to store every bag of words, and was aborted by the KeyError of
\* line 190.
C17_Witness ==
    /\ phase = "predict"
    /\ Finished
    /\ outcome = "raised"
    /\ exc = Exception("KeyError", -1)
    /\ Len(batch_documents) >= 2
    /\ failed_convert_token_to_bow = Len(batch_documents)

\* ---- C18 ---------------------------------------------------------------
\* The bags of words of the documents the conversion loop has passed.
BowOfPassed ==
    [i \in 1..(doc_index - 1) |->
        doc2bow(train_val_test_dictionary, batch_documents[i].l)]
Occurrences(seq, x) == Cardinality({k \in 1..Len(seq) : seq[k] = x})

\* C18: during and after the corpus build the corpus holds one bag of words
\* per converted document: its length is the converted count, converted
\* plus failed is the number of documents passed (all of the batch once the
\* loop is over), no bag of words is entered more often than documents
\* yield it, the other phases' corpora stay empty, and the build is not
\* left before the last document because a conversion failed.
C18_CorpusMatchesConversions ==
    (phase \in CorpusPhases /\ doc_index >= 1) =>
        LET corpus == corpus_data[phase]
        IN /\ Len(corpus) = number_of_documents
           /\ number_of_documents + failed_convert_token_to_bow
                  = doc_index - 1
           /\ doc_index - 1 <= Len(batch_documents)
           /\ Len(corpus) <= Len(batch_documents)
           /\ \A k \in 1..Len(corpus) :
                Occurrences(corpus, corpus[k])
                    <= Occurrences(BowOfPassed, corpus[k])
           /\ \A p \in CorpusPhases \ {phase} : corpus_data[p] = <<>>
           /\ (failed_convert_token_to_bow > 0 /\ pc # "bow")
                  => doc_index - 1 = Len(batch_documents)

\* The build is over: the conversion of the first document failed and the
\* two documents behind it were converted.
C18_Witness ==
    /\ pc = "model"
    /\ "doc2bow" \in faulty
    /\ Len(batch_documents) = 3
    /\ failed_convert_token_to_bow = 1
    /\ number_of_documents = 2
    /\ corpus_data[phase] =
           <<doc2bow(train_val_test_dictionary, batch_documents[2].l),
             doc2bow(train_val_test_dictionary, batch_documents[3].l)>>

\* ---- C19 ---------------------------------------------------------------
\* The coherence resampling stage has failed in this call.
FallbackTriggered ==
    HasLogged("Sample coherence scores calculation failed")
\* The candidate set of line 297.
Candidates == {fallback_coherence_values[k] : k \in DOMAIN fallback_coherence_values}

\* C19: whenever the resampling stage has failed, the five coherence
\* statistics hold one and the same value, that value is one of the ten
\* candidates, and it is the same candidate in every call, whatever the
\* phase, the input, the topic count and the other failures: the one the
\* generator seeded with 8241984 draws first.
C19_FallbackCoherenceFixed ==
    /\ FallbackTriggered =>
         /\ \E v \in Candidates : coherence = AllCoherence(v)
         /\ coherence =
                AllCoherence(fallback_coherence_values[RngChoiceIndex])
    /\ (FallbackTriggered /\ outcome = "record") =>
         /\ record.coherence = fallback_coherence_values[RngChoiceIndex]
         /\ record.mean_coherence = record.coherence
         /\ record.median_coherence = record.coherence
         /\ record.mode_coherence = record.coherence
         /\ record.std_coherence = record.coherence

\* A record was returned after the resampling stage failed.
C19_Witness ==
    /\ FallbackTriggered
    /\ outcome = "record"
    /\ record.coherence \in Candidates
    /\ record.std_coherence = record.coherence

\* ---- C20 ---------------------------------------------------------------
\* Model fitting has failed in this train-phase call.
FittingFailed ==
    phase = "train" /\ HasLogged("An error occurred during LDA model training")

\* C20: when fitting fails in the train phase the exception is raised to
\* the caller at once: the call has ended, no model stands in for the
\* failed one, no metric task, topic extraction or batch stage has run and
\* no record is returned.
C20_TrainingFailureFatal ==
    FittingFailed =>
        /\ Finished
        /\ outcome = "raised"
        /\ exc = Exception("LdaModelError", -1)
        /\ model_fits = 1
        /\ ldamodel = "unset"
        /\ ldamodel_bytes = "unset"
        /\ \A t \in DOMAIN tasks : tasks[t] = "unset"
        /\ max_attempts = 0
        /\ topics_to_store_task = "unset"
        /\ futures = 0
        /\ validation_results_jsonb = ValidationPayload("unset", "", EmptyBag)
        /\ record.type = "unset"

\* Fitting failed on a corpus of three documents.
C20_Witness ==
    /\ FittingFailed
    /\ Finished
    /\ Len(corpus_data["train"]) = 3
    /\ outcome = "raised"

\* ---- C21 ---------------------------------------------------------------
\* sub can be had from seq by leaving elements out.
RECURSIVE IsSubsequence(_, _)
IsSubsequence(sub, seq) ==
    IF sub = <<>> THEN TRUE
    ELSE IF seq = <<>> THEN FALSE
    ELSE IF Head(sub) = Head(seq) THEN IsSubsequence(Tail(sub), Tail(seq))
    ELSE IsSubsequence(sub, Tail(seq))

\* C21: the corpus is the sequence of the bags of words of the converted
\* documents in the order these documents have in the normalized batch: it
\* is had from the bags of words of the documents passed so far by leaving
\* out those whose conversion failed.
C21_ConversionKeepsOrder ==
    (phase \in CorpusPhases /\ doc_index >= 1) =>
        /\ IsSubsequence(corpus_data[phase], BowOfPassed)
        /\ failed_convert_token_to_bow = 0 => corpus_data[phase] = BowOfPassed

\* Of three documents the second failed to convert; the corpus holds the
\* bags of words of the first and the third, which differ, in that order.
C21_Witness ==
    /\ pc = "model"
    /\ Len(batch_documents) = 3
    /\ Len(corpus_data[phase]) = 2
    /\ corpus_data[phase][1] =
           doc2bow(train_val_test_dictionary, batch_documents[1].l)
    /\ corpus_data[phase][2] =
           doc2bow(train_val_test_dictionary, batch_documents[3].l)
    /\ corpus_data[phase][1] # corpus_data[phase][2]

\* ---- C22 ---------------------------------------------------------------
\* Line 190 has been executed.
ChunksizeComputed ==
    phase \in CorpusPhases /\ (pc = "model" \/ PastModelStage)

\* C22: the chunk size is max(1, floor(corpus length / 5)): it is at least
\* 1 for every corpus, five chunks of that size fit into a corpus of five
\* or more documents while five chunks of one more do not, and it is 1 for
\* a corpus of fewer than five documents.
C22_ChunksizeFormula ==
    ChunksizeComputed =>
        LET len == Len(corpus_data[phase]) IN
        /\ chunksize >= 1
        /\ len >= 5 => (5 * chunksize <= len /\ len < 5 * (chunksize + 1))
        /\ len < 5 => chunksize = 1

\* A corpus of at least ten documents got a chunk size above 1.
C22_Witness ==
    /\ ChunksizeComputed
    /\ Len(corpus_data[phase]) >= 10
    /\ chunksize = Len(corpus_data[phase]) \div 5
    /\ chunksize >= 2

\* ---- C23 ---------------------------------------------------------------
\* C23 as claimed: when the batch-size heuristic has raised and the
\* submission loop has run without raising, exactly one unit of work has
\* been submitted, and it is the whole corpus.
C23_HeuristicFailureOneBatch ==
    (ConstructionRaised /\ pc # "submit" /\ ~SubmissionRaised) =>
        /\ futures = 1
        /\ Len(corpus_batches) = 1
        /\ corpus_batches[1].docs = corpus_data[phase]

\* ---- C24 ---------------------------------------------------------------
\* The bags of words of the documents passed so far, taken against the
\* vocabulary that is given to the model.
BowAgainstUnified ==
    [i \in 1..Min(doc_index - 1, Len(batch_documents)) |->
        doc2bow(id2word, batch_documents[i].l)]

\* C24 as claimed: the corpus holds the encodings of the converted
\* documents against the unified vocabulary, the one the model is given as
\* id2word.
C24_CorpusEncodedAgainstUnified ==
    (phase \in CorpusPhases /\ doc_index >= 1) =>
        IsSubsequence(corpus_data[phase], BowAgainstUnified)

\* ---- C25 ---------------------------------------------------------------
\* The documents of the batches, in index order.
RECURSIVE ConcatBatches(_)
ConcatBatches(batches) ==
    IF batches = <<>> THEN <<>>
    ELSE Head(batches).docs \o ConcatBatches(Tail(batches))

\* The heuristic returned and the batches have been built.
\* (Line 398 sets batch_size to -1 and the heuristic's failure leaves it
\* there; lines 405-407 make it at least 1.)
HeuristicSucceeded == batch_size >= 1

\* C25: when the heuristic succeeds the batch size is min(heuristic value,
\* corpus length), or 5 when that is 0; the batches are non-empty slices
\* whose concatenation in index order is the corpus; every batch but the
\* last has batch-size documents and the last no more; and the batches are
\* submitted in index order, all of them unless a submission raised.
C25_BatchesPartitionCorpus ==
    HeuristicSucceeded =>
        LET corpus == corpus_data[phase]
            n == Len(corpus_batches)
        IN /\ \E estimate \in 1..MaxBatchSize :
                batch_size = (IF Min(Len(corpus), estimate) = 0 THEN 5
                              ELSE Min(Len(corpus), estimate))
           /\ ConcatBatches(corpus_batches) = corpus
           /\ \A k \in 1..n :
                /\ corpus_batches[k].slice
                /\ corpus_batches[k].docs # <<>>
                /\ Len(corpus_batches[k].docs) <= batch_size
                /\ k < n => Len(corpus_batches[k].docs) = batch_size
                /\ corpus_batches[k].docs =
                       SubSeq(corpus, (k - 1) * batch_size + 1,
                              (k - 1) * batch_size
                                  + Len(corpus_batches[k].docs))
           /\ pc # "submit" =>
                /\ futures <= n
                /\ DOMAIN status = 1..futures
                /\ ~SubmissionRaised => futures = n

\* Three documents in batches of two: a full batch and a short last one,
\* both submitted.
C25_Witness ==
    /\ HeuristicSucceeded
    /\ Len(corpus_data[phase]) = 3
    /\ batch_size = 2
    /\ Len(corpus_batches) = 2
    /\ Len(corpus_batches[2].docs) = 1
    /\ futures = 2

\* ---- C26 ---------------------------------------------------------------
\* The raw collection is exactly one valid document: a non-empty list of
\* string tokens or a bare non-empty string; nothing fails.
C26Case ==
    /\ faulty = {}
    /\ phase = "train"
    /\ Len(validation_test_data) = 1
    /\ \/ ValidTokenList(validation_test_data[1])
       \/ IsStr(validation_test_data[1]) /\ Truthy(validation_test_data[1])

\* C26 as claimed: a collection of one valid document becomes a batch of one
\* document and is processed to a record; it is not rejected.
C26_SingleDocumentProcessed ==
    /\ (C26Case /\ pc \notin {"resolve", "normalize", "post_cleaning"})
           => Len(batch_documents) = 1 /\ outcome # "None"
    /\ (C26Case /\ Finished) => outcome = "record"

\* ---- C27 ---------------------------------------------------------------
\* C27 as claimed: the record's start_time is the clock reading taken on
\* entry (the clock starts at 0 and line 65 reads it first), end_time is
\* read at record assembly, and every step of the call lies between them.
C27_StartTimeTakenOnEntry ==
    outcome = "record" =>
        /\ record.start_time = 0
        /\ record.end_time = clock - 1
        /\ record.start_time < record.end_time

\* ---- C28 ---------------------------------------------------------------
\* Resolving the raw collection raised: line 76 bound nothing and the except
\* of line 112 logged the error.
ResolveRaised ==
    /\ "batch_documents" \in unbound
    /\ HasLogged("Error computing validation_test_data data")

\* C28 as claimed: when resolving the raw collection raises, the error is
\* logged, the call returns None with no exception reaching the caller, and
\* no later stage runs.
C28_ResolveFailureReturnsNone ==
    /\ ResolveRaised =>
         /\ train_val_test_dictionary = {}
         /\ ldamodel = "unset"
         /\ futures = 0
    /\ (ResolveRaised /\ Finished) => (outcome = "None" /\ exc = NoExc)

\* ---- C29 ---------------------------------------------------------------
\* C29 as claimed: after any outcome of the two waits the done sets of the
\* two passes are disjoint and the result list has no more entries than
\* batches were submitted.
C29_ResultCountBounded ==
    ExecutorLeft =>
        /\ done_batches \cap retry_done_batches = {}
        /\ BagCardinality(validation_results_to_store) <= futures

\* C29: the done sets of the two passes are disjoint, every submitted batch
\* has at most one entry in the result list, every entry of the list is the
\* result of a submitted batch or the failure sentinel, and unless the list
\* is the one-element sentinel list it has no more entries than batches were
\* submitted.
C29_AtMostOneEntryPerBatch ==
    /\ done_batches \cap retry_done_batches = {}
    /\ done_batches \cup retry_done_batches \subseteq 1..futures
    /\ \A f \in 1..futures :
         CopiesIn(BatchResult(f), validation_results_to_store) <= 1
    /\ \A e \in BagToSet(validation_results_to_store) :
         \/ \E f \in done_batches \cup retry_done_batches :
              e = BatchResult(f)
         \/ e = ExecutorSentinel(phase) /\ SentinelResult
    /\ ~SentinelResult =>
         BagCardinality(validation_results_to_store) <= futures

\* Both passes completed batches and every one of the three submitted
\* batches has its one entry in the result list.
C29_Witness ==
    /\ ExecutorLeft
    /\ ~SentinelResult
    /\ futures = 3
    /\ done_batches # {}
    /\ retry_done_batches # {}
    /\ BagCardinality(validation_results_to_store) = 3
    /\ \A f \in 1..futures :
         CopiesIn(BatchResult(f), validation_results_to_store) = 1

====
